---- MODULE Spec2Model ----
(***************************************************************************)
(* Tenant lifecycle of the Odoo SaaS platform: the tenant/backup/audit     *)
(* tables, the PostgreSQL cluster holding one database per tenant, the RQ  *)
(* job queue, the worker processes running the lifecycle jobs of           *)
(* workers/jobs/tenant_jobs.py and the admin/portal API requests that      *)
(* write tenant state.                                                     *)
(*                                                                         *)
(* Granularity: one action per session_scope() block of a job handler and  *)
(* one per backend call between two blocks, so that everything another     *)
(* worker or request can do between two transactions of a handler is an    *)
(* interleaving of the model.  An API request is two actions: the body of  *)
(* its session_scope() block (read, checks, enqueue) and the commit.       *)
(* A session_scope() block of a job handler either commits or raises (the  *)
(* record store is unreachable); a backend call either succeeds or fails.  *)
(***************************************************************************)
EXTENDS Integers, Sequences, FiniteSets, TLC

\* ------------------------------------------------------------------ bounds
MaxTenants == 1
MaxBackups == 1
NumWorkers == 2
MaxOps == 3

TenantIds == 1..MaxTenants
BackupIds == 1..MaxBackups
Workers == 1..NumWorkers

\* ---------------------------------------------------------- program values
CREATING == "creating"
ACTIVE == "active"
SUSPENDED == "suspended"
DELETING == "deleting"
DELETED == "deleted"
ERROR == "error"
TenantState == {CREATING, ACTIVE, SUSPENDED, DELETING, DELETED, ERROR}

PENDING == "pending"
IN_PROGRESS == "in_progress"
COMPLETED == "completed"
FAILED == "failed"
BackupStatus == {PENDING, IN_PROGRESS, COMPLETED, FAILED}

PROVISION == "provision_tenant"
DELETE == "delete_tenant"
BACKUP == "backup_tenant"
RESTORE == "restore_tenant"
JobKinds == {PROVISION, DELETE, BACKUP, RESTORE}

Null == "null"
NoId == 0

\* Slugs a create request may carry; a slug is a sequence of characters.
SlugInputs == { <<"a", "c", "m", "e">>, <<"a", "-", "c", "o">>, <<"a", "_", "c", "o">> }

Lower == {"a", "c", "e", "m", "o"}
Digit == {"0", "1"}

\* A mutation of validate_slug: '_' is accepted inside a slug.
validate_slug_WithUnderscore(slug) ==
    /\ Len(slug) >= 4
    /\ Len(slug) <= 50
    /\ slug[1] \in Lower
    /\ \A i \in 2..(Len(slug) - 1) : slug[i] \in Lower \cup Digit \cup {"-", "_"}
    /\ slug[Len(slug)] \in Lower \cup Digit

\* validate_slug: ^[a-z][a-z0-9-]{2,48}[a-z0-9]$
validate_slug(slug) ==
    /\ Len(slug) >= 4
    /\ Len(slug) <= 50
    /\ slug[1] \in Lower
    /\ \A i \in 2..(Len(slug) - 1) : slug[i] \in Lower \cup Digit \cup {"-"}
    /\ slug[Len(slug)] \in Lower \cup Digit

\* A mutation of DbNameOf: the hyphens of the slug are kept.
DbNameOf_NoReplace(slug) == <<"o", "d", "o", "o", "_">> \o slug

\* f"odoo_{slug.replace('-', '_')}"
DbNameOf(slug) ==
    <<"o", "d", "o", "o", "_">> \o
        [i \in 1..Len(slug) |-> IF slug[i] = "-" THEN "_" ELSE slug[i]]

NoSlug == << >>
NoDb == << >>

\* ------------------------------------------------------------------- state
VARIABLES
    tenant,     \* tenants table: TenantIds -> row
    backup,     \* backups table: BackupIds -> row
    audit,      \* audit_logs table, in insertion order
    databases,  \* the tenant databases that exist in the PostgreSQL cluster
    sessions,   \* the tenant databases other clients hold connections to
    files,      \* the archive files that exist under BACKUP_DIR
    queue,      \* the jobs waiting in the RQ queue
    worker,     \* Workers -> the job a worker runs, its position and locals
    manager,    \* Workers -> the WorkerManager process around the worker
    req,        \* the API request in flight (its session_scope block is open)
    ops         \* number of API requests and enqueue_job calls made so far

vars == <<tenant, backup, audit, databases, sessions, files, queue, worker, manager,
         req, ops>>

NoTenant ==
    [exists |-> FALSE, slug |-> NoSlug, state |-> Null, state_message |-> Null,
     db_name |-> NoDb, suspended_at |-> Null, last_backup_at |-> Null]

NoPath == << >>

NoBackup ==
    [exists |-> FALSE, tenant_id |-> NoId, status |-> Null, file_path |-> NoPath,
     file_size_bytes |-> 0, error_message |-> Null, error_length |-> 0]

Job(kind, t, b) == [kind |-> kind, tenant_id |-> t, backup_id |-> b]

\* The dict a handler returns: {'success': ..., 'error': ...}.
NoResult == [returned |-> FALSE, success |-> FALSE, error |-> Null]
Success == [returned |-> TRUE, success |-> TRUE, error |-> Null]
\* A mutation of Failure: the dict of a failed job carries no error text.
Failure_NoText(e) == [returned |-> TRUE, success |-> FALSE, error |-> Null]
Failure(e) == [returned |-> TRUE, success |-> FALSE, error |-> e]

IdleWorker ==
    [pc |-> "idle", kind |-> Null, tenant_id |-> NoId, backup_id |-> NoId,
     db_name |-> NoDb, seen |-> Null, backup_file |-> NoPath,
     dropped |-> Null, created |-> Null, restored |-> Null,
     conc |-> {}, fault |-> Null, result |-> NoResult]

NoReq == [op |-> Null]

\* WorkerManager.run() around a worker.  phase: "starting" from
\* setup_signal_handlers() until self.worker is assigned and work() is
\* called, "working" inside Worker.work(), "exited" after it.  running is
\* self.running; stop_requested is set by Worker.request_stop().
StartingManager == [phase |-> "starting", running |-> TRUE, stop_requested |-> FALSE]
WorkingManager == [phase |-> "working", running |-> TRUE, stop_requested |-> FALSE]

\* An audit_logs row: old_values/new_values reduced to the state they record
\* and the backup id they reference.
AuditLog(actor, action, t, old, new, b) ==
    [actor_email |-> actor, action |-> action, resource_id |-> t,
     old_state |-> old, new_state |-> new, backup_id |-> b]

Init ==
    /\ tenant = [t \in TenantIds |-> NoTenant]
    /\ backup = [b \in BackupIds |-> NoBackup]
    /\ audit = << >>
    /\ databases = {}
    /\ sessions = {}
    /\ files = {}
    /\ queue = {}
    /\ worker = [w \in Workers |-> IdleWorker]
    /\ manager = [w \in Workers |-> WorkingManager]
    /\ req = NoReq
    /\ ops = 0

\* ----------------------------------------------------------------- helpers
Busy(w) == worker[w].pc # "idle"

FreeTenantIds == {t \in DOMAIN tenant : ~tenant[t].exists}
FreeBackupIds == {b \in DOMAIN backup : ~backup[b].exists}
Min(S) == CHOOSE x \in S : \A y \in S : x <= y

\* A handler returns: the worker keeps the job it ran and the result, its
\* locals are gone.
Return(w, result) ==
    [IdleWorker EXCEPT !.kind = worker[w].kind,
                       !.tenant_id = worker[w].tenant_id,
                       !.backup_id = worker[w].backup_id,
                       !.conc = worker[w].conc,
                       !.fault = worker[w].fault,
                       !.result = result]

FirstPc(kind) ==
    CASE kind = PROVISION -> "prov_read"
      [] kind = DELETE -> "del_read"
      [] kind = BACKUP -> "bak_read"
      [] kind = RESTORE -> "res_read"

\* What can make the commit of a handler's session_scope block raise: the
\* record store failing the block ("store"), or, in a block that adds an
\* AuditLog row, the INSERT of that row failing at the flush ("audit").  Null:
\* the block commits.  The worker keeps the cause of its last failed block in
\* `fault`.
SessionFaults(adds_audit) ==
    IF adds_audit THEN {Null, "store", "audit"} ELSE {Null, "store"}

\* A mutation of session_scope: what the block wrote stays when it raises.
session_scope_NoRollback(before, written, fault) == written

\* session_scope(): the rows a table holds after a block that found it
\* holding `before` and wrote `written` in it: session.commit() when neither
\* the block nor the commit raised, session.rollback() and re-raise
\* otherwise.
session_scope(before, written, fault) ==
    IF fault = Null THEN written ELSE before

\* The length error texts are cut to before they are stored.
MaxErrorLen == 500

\* Messages the handlers write or return.
MsgCreateFailed == "Failed to create database"
MsgDeletedAt == "Deleted at"
ExcText == "exception text"

\* ------------------------------------------------------ ProvisioningBackend
\* The cluster as the admin connection sees it, with the value the call in
\* progress will return.
Cluster(dbs, ses, ret) == [databases |-> dbs, sessions |-> ses, ret |-> ret]

\* A mutation of DatabaseExists: the lookup in pg_database finds nothing.
DatabaseExists_Never(c, db_name) == FALSE

\* SELECT 1 FROM pg_database WHERE datname = :name
DatabaseExists(c, db_name) == db_name \in c.databases

\* CREATE DATABASE "name": PostgreSQL raises when the name is taken.
CreateDatabase(c, db_name) ==
    IF db_name \in c.databases
      THEN [c EXCEPT !.ret = FALSE]
      ELSE [c EXCEPT !.databases = @ \cup {db_name}]

\* create_tenant_database: True when the database was there or CREATE
\* DATABASE ran, False when the connection or a statement raised; `fault` is
\* such a failure that is not caused by the state of the cluster.
create_tenant_database(dbs, ses, db_name, fault) ==
    LET c == Cluster(dbs, ses, TRUE) IN
    IF fault
      THEN [c EXCEPT !.ret = FALSE]
      ELSE IF DatabaseExists(c, db_name)
             THEN c
             ELSE CreateDatabase(c, db_name)

\* A mutation of TerminateBackends: no session is terminated.
TerminateBackends_None(c, db_name) == c

\* SELECT pg_terminate_backend(pid) FROM pg_stat_activity WHERE datname = name
TerminateBackends(c, db_name) == [c EXCEPT !.sessions = @ \ {db_name}]

\* DROP DATABASE IF EXISTS "name": PostgreSQL raises while other sessions are
\* connected to the database.
DropDatabaseIfExists(c, db_name) ==
    IF db_name \in c.sessions
      THEN [c EXCEPT !.ret = FALSE]
      ELSE [c EXCEPT !.databases = @ \ {db_name}]

\* drop_tenant_database: terminate the sessions on the database, then drop
\* it; False when the connection or a statement raised.
drop_tenant_database(dbs, ses, db_name, fault) ==
    LET c == Cluster(dbs, ses, TRUE) IN
    IF fault
      THEN [c EXCEPT !.ret = FALSE]
      ELSE DropDatabaseIfExists(TerminateBackends(c, db_name), db_name)

\* ---------------------------------------------------------------- API layer
\* q.enqueue(...) inside a request: the job is queued, or Redis is unreachable
\* and the handler only logs a warning.
Enqueued(job) == {queue \cup {job}, queue}

NewRequest(op, t, slug, old, b) ==
    [op |-> op, tenant_id |-> t, slug |-> slug, old_state |-> old, backup_id |-> b]

\* A request its handler answers 404 or 400 from inside the session_scope
\* block: nothing is staged and the commit at the block's exit writes nothing.
Rejection(op, t, code) ==
    [op |-> "rejected", request |-> op, tenant_id |-> t, code |-> code]

\* POST /tenants: body of the session_scope block, up to the return.
api_create_tenant(slug) ==
    /\ req = NoReq
    /\ ops < MaxOps
    /\ validate_slug(slug)
    /\ ~\E t \in DOMAIN tenant : tenant[t].exists /\ tenant[t].slug = slug
    /\ FreeTenantIds # {}
    /\ LET t == Min(FreeTenantIds) IN
         /\ req' = NewRequest("create", t, slug, Null, NoId)
         /\ queue' \in Enqueued(Job(PROVISION, t, NoId))
    /\ ops' = ops + 1
    /\ UNCHANGED <<tenant, backup, audit, databases, files, worker, sessions, manager>>

\* PUT /tenants/<id>: name, plan_id, custom_domain and odoo_config are the
\* fields it assigns, none of which is part of the state; it adds an audit
\* entry.
api_update_tenant(t) ==
    /\ req = NoReq
    /\ ops < MaxOps
    /\ req' = IF ~tenant[t].exists
                THEN Rejection("update", t, 404)
                ELSE NewRequest("update", t, NoSlug, tenant[t].state, NoId)
    /\ ops' = ops + 1
    /\ UNCHANGED <<tenant, backup, audit, databases, files, queue, worker, sessions, manager>>

\* DELETE /tenants/<id>
api_delete_tenant(t) ==
    /\ req = NoReq
    /\ ops < MaxOps
    /\ IF ~tenant[t].exists
         THEN req' = Rejection("delete", t, 404) /\ UNCHANGED queue
         ELSE IF tenant[t].state = DELETED
                THEN req' = Rejection("delete", t, 400) /\ UNCHANGED queue
                ELSE /\ req' = NewRequest("delete", t, NoSlug, tenant[t].state, NoId)
                     /\ queue' \in Enqueued(Job(DELETE, t, NoId))
    /\ ops' = ops + 1
    /\ UNCHANGED <<tenant, backup, audit, databases, files, worker, sessions, manager>>

\* POST /tenants/<id>/suspend
api_suspend_tenant(t) ==
    /\ req = NoReq
    /\ ops < MaxOps
    /\ req' = IF ~tenant[t].exists
                THEN Rejection("suspend", t, 404)
                ELSE IF tenant[t].state # ACTIVE
                       THEN Rejection("suspend", t, 400)
                       ELSE NewRequest("suspend", t, NoSlug, tenant[t].state, NoId)
    /\ ops' = ops + 1
    /\ UNCHANGED <<tenant, backup, audit, databases, files, queue, worker, sessions, manager>>

\* POST /tenants/<id>/resume
api_resume_tenant(t) ==
    /\ req = NoReq
    /\ ops < MaxOps
    /\ req' = IF ~tenant[t].exists
                THEN Rejection("resume", t, 404)
                ELSE IF tenant[t].state # SUSPENDED
                       THEN Rejection("resume", t, 400)
                       ELSE NewRequest("resume", t, NoSlug, tenant[t].state, NoId)
    /\ ops' = ops + 1
    /\ UNCHANGED <<tenant, backup, audit, databases, files, queue, worker, sessions, manager>>

\* POST /tenants/<id>/backup
api_create_backup(t) ==
    /\ req = NoReq
    /\ ops < MaxOps
    /\ IF ~tenant[t].exists
         THEN req' = Rejection("backup", t, 404) /\ UNCHANGED queue
         ELSE IF tenant[t].state # ACTIVE
                THEN req' = Rejection("backup", t, 400) /\ UNCHANGED queue
                ELSE /\ FreeBackupIds # {}
                     /\ LET b == Min(FreeBackupIds) IN
                          /\ req' = NewRequest("backup", t, NoSlug, tenant[t].state, b)
                          /\ queue' \in Enqueued(Job(BACKUP, t, b))
    /\ ops' = ops + 1
    /\ UNCHANGED <<tenant, backup, audit, databases, files, worker, sessions, manager>>

\* What the commit of the request's session writes.
CommittedTenant(r) ==
    CASE r.op = "create" ->
           [tenant EXCEPT ![r.tenant_id] =
               [exists |-> TRUE, slug |-> r.slug, state |-> CREATING,
                state_message |-> Null, db_name |-> DbNameOf(r.slug),
                suspended_at |-> Null, last_backup_at |-> Null]]
      [] r.op = "delete" ->
           [tenant EXCEPT ![r.tenant_id].state = DELETING]
      [] r.op = "suspend" ->
           [tenant EXCEPT ![r.tenant_id].state = SUSPENDED,
                          ![r.tenant_id].suspended_at = "set"]
      [] r.op = "resume" ->
           [tenant EXCEPT ![r.tenant_id].state = ACTIVE,
                          ![r.tenant_id].suspended_at = Null]
      [] OTHER -> tenant

\* A mutation of CommittedAudit: the request's entry replaces the trail.
CommittedAudit_Rewrite(r) ==
    IF r.op \in {"create", "delete", "suspend", "resume"}
      THEN << AuditLog("user", r.op, r.tenant_id, r.old_state, Null, NoId) >>
      ELSE audit

CommittedAudit(r) ==
    CASE r.op = "create" ->
           Append(audit, AuditLog("user", "create", r.tenant_id, Null, Null, NoId))
      [] r.op = "delete" ->
           Append(audit, AuditLog("user", "delete", r.tenant_id, r.old_state, DELETING, NoId))
      [] r.op = "suspend" ->
           Append(audit, AuditLog("user", "suspend", r.tenant_id, r.old_state, SUSPENDED, NoId))
      [] r.op = "resume" ->
           Append(audit, AuditLog("user", "resume", r.tenant_id, r.old_state, ACTIVE, NoId))
      [] r.op = "update" ->
           Append(audit, AuditLog("user", "update", r.tenant_id, r.old_state, r.old_state, NoId))
      [] OTHER -> audit

CommittedBackup(r) ==
    IF r.op = "backup"
      THEN [backup EXCEPT ![r.backup_id] =
               [exists |-> TRUE, tenant_id |-> r.tenant_id, status |-> PENDING,
                file_path |-> NoPath, file_size_bytes |-> 0,
                error_message |-> Null, error_length |-> 0]]
      ELSE backup

\* session_scope exit of the request: session.commit().
api_commit ==
    /\ req # NoReq
    /\ tenant' = session_scope(tenant, CommittedTenant(req), Null)
    /\ audit' = session_scope(audit, CommittedAudit(req), Null)
    /\ backup' = session_scope(backup, CommittedBackup(req), Null)
    /\ req' = NoReq
    /\ UNCHANGED <<databases, files, queue, worker, ops, sessions, manager>>

\* session_scope exit of the request when the commit raises: rollback, 500.
api_rollback ==
    /\ req # NoReq
    /\ tenant' = session_scope(tenant, CommittedTenant(req), "store")
    /\ audit' = session_scope(audit, CommittedAudit(req), "store")
    /\ backup' = session_scope(backup, CommittedBackup(req), "store")
    /\ req' = NoReq
    /\ UNCHANGED <<databases, files, queue, worker, ops, sessions, manager>>

\* ------------------------------------------------------- queue and workers
\* enqueue_job(func, *args): any lifecycle job for any tenant id.
enqueue_job(kind, t, b) ==
    /\ ops < MaxOps
    /\ kind \in {PROVISION, DELETE} => b = NoId
    /\ kind = RESTORE => b # NoId
    /\ Job(kind, t, b) \notin queue
    /\ queue' = queue \cup {Job(kind, t, b)}
    /\ ops' = ops + 1
    /\ UNCHANGED <<tenant, backup, audit, databases, files, worker, req, sessions, manager>>

\* Worker.work(): an idle worker dequeues a job and calls its handler.  conc
\* records which workers' jobs run at the same time as this one.
dequeue_job(w, job) ==
    /\ manager[w].phase = "working"
    /\ ~manager[w].stop_requested
    /\ ~Busy(w)
    /\ job \in queue
    /\ queue' = queue \ {job}
    /\ worker' =
         [o \in Workers |->
            IF o = w
              THEN [IdleWorker EXCEPT !.pc = FirstPc(job.kind),
                                      !.kind = job.kind,
                                      !.tenant_id = job.tenant_id,
                                      !.backup_id = job.backup_id,
                                      !.conc = {x \in Workers \ {w} : Busy(x)}]
              ELSE IF Busy(o)
                     THEN [worker[o] EXCEPT !.conc = @ \cup {w}]
                     ELSE [worker[o] EXCEPT !.conc = @ \ {w}]]
    /\ UNCHANGED <<tenant, backup, audit, databases, files, req, ops, sessions, manager>>

\* self.worker = Worker(queues, ...); self.worker.work(with_scheduler=True)
start_work(w) ==
    /\ manager[w].phase = "starting"
    /\ manager' = [manager EXCEPT ![w].phase = "working"]
    /\ UNCHANGED <<tenant, backup, audit, databases, sessions, files, queue, worker,
                   req, ops>>

\* shutdown_handler(signum, frame), on SIGTERM or SIGINT: self.running = False
\* and, if self.worker is set, self.worker.request_stop(signum, frame).
shutdown_handler(w) ==
    /\ manager[w].phase # "exited"
    /\ manager' = [manager EXCEPT
                     ![w].running = FALSE,
                     ![w].stop_requested = @ \/ manager[w].phase = "working"]
    /\ UNCHANGED <<tenant, backup, audit, databases, sessions, files, queue, worker,
                   req, ops>>

\* Worker.work() returns once a stop was requested and no job is running;
\* run() logs "Worker stopped" and the process ends.
worker_exit(w) ==
    /\ manager[w].phase = "working"
    /\ manager[w].stop_requested
    /\ ~Busy(w)
    /\ manager' = [manager EXCEPT ![w].phase = "exited"]
    /\ UNCHANGED <<tenant, backup, audit, databases, sessions, files, queue, worker,
                   req, ops>>

\* ------------------------------------------------------- provision_tenant
\* The state a PROVISION job accepts (tenant.state != CREATING is rejected).
ProvisionAccepts(state) == state = CREATING

\* First session_scope block: load the tenant, check its state, keep db_name.
provision_read(w) ==
    /\ worker[w].pc = "prov_read"
    /\ LET t == worker[w].tenant_id IN
       \E raised \in BOOLEAN :
         worker' = [worker EXCEPT ![w] =
            IF raised
              THEN [@ EXCEPT !.pc = "prov_except"]
              ELSE IF ~tenant[t].exists
                     THEN Return(w, Failure("Tenant not found"))
                     ELSE IF ~ProvisionAccepts(tenant[t].state)
                            THEN Return(w, Failure("Invalid state"))
                            ELSE [@ EXCEPT !.pc = "prov_create",
                                           !.db_name = tenant[t].db_name,
                                           !.seen = tenant[t].state]]
    /\ UNCHANGED <<tenant, backup, audit, databases, files, queue, req, ops, sessions, manager>>

\* create_tenant_database(db_name), outside any session.
provision_create(w) ==
    /\ worker[w].pc = "prov_create"
    /\ \E fault \in BOOLEAN :
         LET r == create_tenant_database(databases, sessions, worker[w].db_name, fault) IN
           /\ databases' = r.databases
           /\ worker' = [worker EXCEPT ![w].created = IF r.ret THEN "ok" ELSE "failed",
                                       ![w].pc = IF r.ret THEN "prov_mark_active"
                                                          ELSE "prov_mark_error"]
    /\ UNCHANGED <<tenant, backup, audit, files, queue, req, ops, sessions, manager>>

\* A mutation of MarkError: the message is written, the state is not.
MarkError_MessageOnly(t, message) ==
    IF tenant[t].exists
      THEN [tenant EXCEPT ![t].state_message = message]
      ELSE tenant

\* tenant = session.query(...).first(); if tenant: tenant.state = ERROR;
\* tenant.state_message = message
MarkError(t, message) ==
    IF tenant[t].exists
      THEN [tenant EXCEPT ![t].state = ERROR, ![t].state_message = message]
      ELSE tenant

\* if not create_tenant_database(db_name): second block writes ERROR.
provision_mark_error(w) ==
    /\ worker[w].pc = "prov_mark_error"
    /\ LET t == worker[w].tenant_id IN
       \E fault \in SessionFaults(FALSE) :
         /\ tenant' = session_scope(tenant, MarkError(t, MsgCreateFailed), fault)
         /\ worker' = [worker EXCEPT ![w] =
                         IF fault # Null
                           THEN [@ EXCEPT !.pc = "prov_except"]
                           ELSE Return(w, Failure("Database creation failed"))]
    /\ UNCHANGED <<backup, audit, databases, files, queue, req, ops, sessions, manager>>

\* Third block: ACTIVE, state_message None, audit entry with the state and the
\* db_name read by the first block; then success.
provision_mark_active(w) ==
    /\ worker[w].pc = "prov_mark_active"
    /\ LET t == worker[w].tenant_id IN
       \E fault \in SessionFaults(tenant[t].exists) :
         /\ tenant' = session_scope(tenant,
                         IF tenant[t].exists
                           THEN [tenant EXCEPT ![t].state = ACTIVE,
                                               ![t].state_message = Null]
                           ELSE tenant,
                         fault)
         /\ audit' = session_scope(audit,
                        IF tenant[t].exists
                          THEN Append(audit,
                                 AuditLog("system", "create", t, Null, ACTIVE, NoId)
                                   @@ ("db_name" :> worker[w].db_name))
                          ELSE audit,
                        fault)
         /\ worker' = [worker EXCEPT ![w] =
                         IF fault # Null
                           THEN [@ EXCEPT !.pc = "prov_except", !.fault = fault]
                           ELSE Return(w, Success)]
    /\ UNCHANGED <<backup, databases, files, queue, req, ops, sessions, manager>>

\* except Exception: a further block writes ERROR and str(e); its own failure
\* is only logged.
provision_except(w) ==
    /\ worker[w].pc = "prov_except"
    /\ LET t == worker[w].tenant_id IN
       \E fault \in SessionFaults(FALSE) :
         tenant' = session_scope(tenant, MarkError(t, ExcText), fault)
    /\ worker' = [worker EXCEPT ![w] = Return(w, Failure(ExcText))]
    /\ UNCHANGED <<backup, audit, databases, files, queue, req, ops, sessions, manager>>

\* ---------------------------------------------------------- delete_tenant
\* The state on which a DELETE job returns 'Already deleted'.
DeleteSkips(state) == state = DELETED

\* First block: load the tenant, return early when already deleted.
delete_read(w) ==
    /\ worker[w].pc = "del_read"
    /\ LET t == worker[w].tenant_id IN
       \E raised \in BOOLEAN :
         worker' = [worker EXCEPT ![w] =
            IF raised
              THEN Return(w, Failure(ExcText))
              ELSE IF ~tenant[t].exists
                     THEN Return(w, Failure("Tenant not found"))
                     ELSE IF DeleteSkips(tenant[t].state)
                            THEN Return(w, Success)
                            ELSE [@ EXCEPT !.pc = "del_drop",
                                           !.db_name = tenant[t].db_name,
                                           !.seen = tenant[t].state]]
    /\ UNCHANGED <<tenant, backup, audit, databases, files, queue, req, ops, sessions, manager>>

\* if db_name: drop_tenant_database(db_name); the return value is not read.
delete_drop(w) ==
    /\ worker[w].pc = "del_drop"
    /\ IF worker[w].db_name # NoDb
         THEN \E fault \in BOOLEAN :
                LET r == drop_tenant_database(databases, sessions, worker[w].db_name, fault) IN
                  /\ databases' = r.databases
                  /\ sessions' = r.sessions
                  /\ worker' = [worker EXCEPT ![w].dropped = IF r.ret THEN "ok" ELSE "failed",
                                              ![w].pc = "del_mark"]
         ELSE /\ worker' = [worker EXCEPT ![w].pc = "del_mark"]
              /\ UNCHANGED <<databases, sessions>>
    /\ UNCHANGED <<tenant, backup, audit, files, queue, req, ops, manager>>

\* Second block: DELETED, 'Deleted at ...', audit entry; then success.
delete_mark(w) ==
    /\ worker[w].pc = "del_mark"
    /\ LET t == worker[w].tenant_id IN
       \E fault \in SessionFaults(tenant[t].exists) :
         /\ tenant' = session_scope(tenant,
                         IF tenant[t].exists
                           THEN [tenant EXCEPT ![t].state = DELETED,
                                               ![t].state_message = MsgDeletedAt]
                           ELSE tenant,
                         fault)
         /\ audit' = session_scope(audit,
                        IF tenant[t].exists
                          THEN Append(audit, AuditLog("system", "delete", t, Null, DELETED, NoId))
                          ELSE audit,
                        fault)
         /\ worker' = [worker EXCEPT ![w] =
                         IF fault # Null
                           THEN [Return(w, Failure(ExcText)) EXCEPT !.fault = fault]
                           ELSE Return(w, Success)]
    /\ UNCHANGED <<backup, databases, files, queue, req, ops, sessions, manager>>

\* ---------------------------------------------------------- backup_tenant
\* f"{backup_dir}/{db_name}_{timestamp}.sql": the archive of a database.  The
\* timestamp is not part of the state, so the dumps of one database share
\* their path.
BackupFileOf(db_name) == <<db_name, "sql">>

\* A mutation of BackupAccepts: a SUSPENDED tenant is backed up as well.
BackupAccepts_AlsoSuspended(state) == state \in {ACTIVE, SUSPENDED}

\* Only an ACTIVE tenant is backed up.
BackupAccepts(state) == state = ACTIVE

\* The backups table after `backup.status = status` (and the fields written
\* with it) on backup b, when the job carries a backup id and the row exists.
SetBackup(b, status, path, size, err) ==
    IF b # NoId /\ backup[b].exists
      THEN [backup EXCEPT ![b].status = status,
                          ![b].file_path = IF path = NoPath THEN @ ELSE path,
                          ![b].file_size_bytes = IF path = NoPath THEN @ ELSE size,
                          ![b].error_message = IF err = Null THEN @ ELSE err]
      ELSE backup

\* First block: tenant checks, then the Backup row goes IN_PROGRESS.
backup_read(w) ==
    /\ worker[w].pc = "bak_read"
    /\ LET t == worker[w].tenant_id
           b == worker[w].backup_id IN
       \E fault \in SessionFaults(FALSE) :
         IF fault # Null
           THEN /\ worker' = [worker EXCEPT ![w].pc = "bak_except"]
                /\ backup' = session_scope(backup,
                                SetBackup(b, IN_PROGRESS, NoPath, 0, Null), fault)
           ELSE IF ~tenant[t].exists
                  THEN /\ worker' = [worker EXCEPT ![w] = Return(w, Failure("Tenant not found"))]
                       /\ UNCHANGED backup
                  ELSE IF ~BackupAccepts(tenant[t].state)
                         THEN /\ worker' = [worker EXCEPT ![w] = Return(w, Failure("Tenant not active"))]
                              /\ UNCHANGED backup
                         ELSE /\ backup' = session_scope(backup,
                                              SetBackup(b, IN_PROGRESS, NoPath, 0, Null), fault)
                              /\ worker' = [worker EXCEPT ![w].pc = "bak_dump",
                                                          ![w].db_name = tenant[t].db_name,
                                                          ![w].seen = tenant[t].state]
    /\ UNCHANGED <<tenant, audit, databases, files, queue, req, ops, sessions, manager>>

\* The ways a pg_dump or pg_restore run on database db_name can end: exit 0
\* needs the database to be there.
ToolOutcomes(db_name) ==
    IF db_name \in databases THEN {"ok", "nonzero", "timeout"}
                             ELSE {"nonzero", "timeout"}

\* subprocess.run(pg_dump ...): exit 0 writes the archive; a non-zero exit and
\* a timeout raise.
backup_dump(w) ==
    /\ worker[w].pc = "bak_dump"
    /\ \E outcome \in ToolOutcomes(worker[w].db_name) :
         IF outcome = "ok"
           THEN /\ files' = files \cup {BackupFileOf(worker[w].db_name)}
                /\ worker' = [worker EXCEPT ![w].pc = "bak_record",
                                            ![w].backup_file = BackupFileOf(worker[w].db_name)]
           ELSE /\ worker' = [worker EXCEPT ![w].pc = "bak_except"]
                /\ UNCHANGED files
    /\ UNCHANGED <<tenant, backup, audit, databases, queue, req, ops, sessions, manager>>

\* A mutation of TouchLastBackup: the tenant is also set ACTIVE.
TouchLastBackup_AlsoActive(t) ==
    IF tenant[t].exists
      THEN [tenant EXCEPT ![t].last_backup_at = "set", ![t].state = ACTIVE]
      ELSE tenant

\* The tenant write of backup_tenant's success block: last_backup_at, when
\* the row is there.
TouchLastBackup(t) ==
    IF tenant[t].exists
      THEN [tenant EXCEPT ![t].last_backup_at = "set"]
      ELSE tenant

\* Block after the dump: COMPLETED with path and size, last_backup_at, audit.
backup_record(w) ==
    /\ worker[w].pc = "bak_record"
    /\ LET t == worker[w].tenant_id
           b == worker[w].backup_id IN
       \E fault \in SessionFaults(TRUE) :
         /\ backup' = session_scope(backup,
                         SetBackup(b, COMPLETED, worker[w].backup_file, 1, Null), fault)
         /\ tenant' = session_scope(tenant, TouchLastBackup(t), fault)
         /\ audit' = session_scope(audit,
                        Append(audit, AuditLog("system", "backup", t, Null, Null, NoId)),
                        fault)
         /\ worker' = [worker EXCEPT ![w] =
                         IF fault # Null
                           THEN [@ EXCEPT !.pc = "bak_except", !.fault = fault]
                           ELSE Return(w, Success)]
    /\ UNCHANGED <<databases, files, queue, req, ops, sessions, manager>>

\* The lengths str(e) may have: a short message and one over the limit.
ExcLengths == {30, 600}

\* A mutation of Truncate: the text is stored at its full length.
Truncate_Identity(n) == n

\* str(e)[:500], by the length of the text.
Truncate(n) == IF n > MaxErrorLen THEN MaxErrorLen ELSE n

\* except Exception: FAILED and str(e)[:500] on the Backup row; a failure of
\* that block is swallowed.
backup_except(w) ==
    /\ worker[w].pc = "bak_except"
    /\ LET b == worker[w].backup_id IN
       \E fault \in SessionFaults(FALSE), n \in ExcLengths :
         backup' = session_scope(backup,
                     IF b = NoId \/ ~backup[b].exists
                       THEN backup
                       ELSE [SetBackup(b, FAILED, NoPath, 0, ExcText)
                               EXCEPT ![b].error_length = Truncate(n)],
                     fault)
    /\ worker' = [worker EXCEPT ![w] = Return(w, Failure(ExcText))]
    /\ UNCHANGED <<tenant, audit, databases, files, queue, req, ops, sessions, manager>>

\* --------------------------------------------------------- restore_tenant
\* A mutation of RestoreRejects: the owner of the backup is not compared
\* with the tenant.
RestoreRejects_NoOwnerCheck(t, b) ==
    IF ~tenant[t].exists THEN "Tenant not found"
    ELSE IF ~backup[b].exists THEN "Backup not found"
    ELSE IF backup[b].file_path = NoPath \/ backup[b].file_path \notin files
           THEN "Backup file not found"
    ELSE Null

\* A mutation of RestoreRejects: the backup's file_path is not looked at.
RestoreRejects_NoFileCheck(t, b) ==
    IF ~tenant[t].exists THEN "Tenant not found"
    ELSE IF ~backup[b].exists THEN "Backup not found"
    ELSE IF backup[b].tenant_id # t THEN "Backup does not belong to this tenant"
    ELSE Null

\* The four validations of restore_tenant, in the order of the code: the
\* error the handler returns, Null when the job may go on.
RestoreRejects(t, b) ==
    IF ~tenant[t].exists THEN "Tenant not found"
    ELSE IF ~backup[b].exists THEN "Backup not found"
    ELSE IF backup[b].tenant_id # t THEN "Backup does not belong to this tenant"
    ELSE IF backup[b].file_path = NoPath \/ backup[b].file_path \notin files
           THEN "Backup file not found"
    ELSE Null

\* First block: the four validations, then db_name and the archive path.
restore_read(w) ==
    /\ worker[w].pc = "res_read"
    /\ LET t == worker[w].tenant_id
           b == worker[w].backup_id IN
       \E raised \in BOOLEAN :
         worker' = [worker EXCEPT ![w] =
            IF raised
              THEN Return(w, Failure(ExcText))
              ELSE IF RestoreRejects(t, b) # Null
                     THEN Return(w, Failure(RestoreRejects(t, b)))
              ELSE [@ EXCEPT !.pc = "res_drop",
                             !.db_name = tenant[t].db_name,
                             !.seen = tenant[t].state,
                             !.backup_file = backup[b].file_path]]
    /\ UNCHANGED <<tenant, backup, audit, databases, files, queue, req, ops, sessions, manager>>

\* drop_tenant_database(db_name); the return value is not read.
restore_drop(w) ==
    /\ worker[w].pc = "res_drop"
    /\ \E fault \in BOOLEAN :
         LET r == drop_tenant_database(databases, sessions, worker[w].db_name, fault) IN
           /\ databases' = r.databases
           /\ sessions' = r.sessions
           /\ worker' = [worker EXCEPT ![w].dropped = IF r.ret THEN "ok" ELSE "failed",
                                       ![w].pc = "res_create"]
    /\ UNCHANGED <<tenant, backup, audit, files, queue, req, ops, manager>>

\* create_tenant_database(db_name); the return value is not read.
restore_create(w) ==
    /\ worker[w].pc = "res_create"
    /\ \E fault \in BOOLEAN :
         LET r == create_tenant_database(databases, sessions, worker[w].db_name, fault) IN
           /\ databases' = r.databases
           /\ worker' = [worker EXCEPT ![w].created = IF r.ret THEN "ok" ELSE "failed",
                                       ![w].pc = "res_pg_restore"]
    /\ UNCHANGED <<tenant, backup, audit, files, queue, req, ops, sessions, manager>>

\* subprocess.run(pg_restore ..., timeout=3600): a non-zero exit is logged as a
\* warning, a timeout raises TimeoutExpired into the handler's except.
restore_pg_restore(w) ==
    /\ worker[w].pc = "res_pg_restore"
    /\ \E outcome \in ToolOutcomes(worker[w].db_name) :
         worker' = [worker EXCEPT ![w] =
            IF outcome = "timeout"
              THEN Return(w, Failure(ExcText))
              ELSE [@ EXCEPT !.restored = outcome, !.pc = "res_mark"]]
    /\ UNCHANGED <<tenant, backup, audit, databases, files, queue, req, ops, sessions, manager>>

\* Last block: ACTIVE, audit entry with the backup id; then success.
restore_mark(w) ==
    /\ worker[w].pc = "res_mark"
    /\ LET t == worker[w].tenant_id IN
       \E fault \in SessionFaults(TRUE) :
         /\ tenant' = session_scope(tenant,
                         IF tenant[t].exists
                           THEN [tenant EXCEPT ![t].state = ACTIVE]
                           ELSE tenant,
                         fault)
         /\ audit' = session_scope(audit,
                        Append(audit, AuditLog("system", "restore", t, Null, Null,
                                               worker[w].backup_id)),
                        fault)
         /\ worker' = [worker EXCEPT ![w] =
                         IF fault # Null
                           THEN [Return(w, Failure(ExcText)) EXCEPT !.fault = fault]
                           ELSE Return(w, Success)]
    /\ UNCHANGED <<backup, databases, files, queue, req, ops, sessions, manager>>

\* ------------------------------------------------------------ specification
Next ==
    \/ \E slug \in SlugInputs : api_create_tenant(slug)
    \/ \E t \in TenantIds : api_update_tenant(t)
    \/ \E t \in TenantIds : api_delete_tenant(t)
    \/ \E t \in TenantIds : api_suspend_tenant(t)
    \/ \E t \in TenantIds : api_resume_tenant(t)
    \/ \E t \in TenantIds : api_create_backup(t)
    \/ api_commit
    \/ api_rollback
    \/ \E kind \in JobKinds, t \in TenantIds, b \in BackupIds \cup {NoId} :
         enqueue_job(kind, t, b)
    \/ \E w \in Workers, job \in queue : dequeue_job(w, job)
    \/ \E w \in Workers : provision_read(w)
    \/ \E w \in Workers : provision_create(w)
    \/ \E w \in Workers : provision_mark_error(w)
    \/ \E w \in Workers : provision_mark_active(w)
    \/ \E w \in Workers : provision_except(w)
    \/ \E w \in Workers : delete_read(w)
    \/ \E w \in Workers : delete_drop(w)
    \/ \E w \in Workers : delete_mark(w)
    \/ \E w \in Workers : backup_read(w)
    \/ \E w \in Workers : backup_dump(w)
    \/ \E w \in Workers : backup_record(w)
    \/ \E w \in Workers : backup_except(w)
    \/ \E w \in Workers : restore_read(w)
    \/ \E w \in Workers : restore_drop(w)
    \/ \E w \in Workers : restore_create(w)
    \/ \E w \in Workers : restore_pg_restore(w)
    \/ \E w \in Workers : restore_mark(w)

Spec == Init /\ [][Next]_vars

\* ------------------------------------------------- restore on a populated store
\* The restore jobs of a platform that already runs two provisioned tenants:
\* tenant 1 owns a COMPLETED backup (1) and a FAILED one without archive (2),
\* tenant 2 owns none; tenant id 3 and backup id 3 are not in the tables.  The
\* archive of backup 1 is on disk, or was removed from BACKUP_DIR since.
RestoreTenantIds == {1, 2, 3}
RestoreBackupIds == {1, 2, 3}

ProvisionedTenant(slug, backed_up) ==
    [exists |-> TRUE, slug |-> slug, state |-> ACTIVE, state_message |-> Null,
     db_name |-> DbNameOf(slug), suspended_at |-> Null,
     last_backup_at |-> IF backed_up THEN "set" ELSE Null]

RestoreInit ==
    LET s1 == <<"a", "c", "m", "e">>
        s2 == <<"a", "-", "c", "o">> IN
    /\ tenant = [t \in RestoreTenantIds |->
                   CASE t = 1 -> ProvisionedTenant(s1, TRUE)
                     [] t = 2 -> ProvisionedTenant(s2, FALSE)
                     [] OTHER -> NoTenant]
    /\ backup = [b \in RestoreBackupIds |->
                   CASE b = 1 -> [exists |-> TRUE, tenant_id |-> 1, status |-> COMPLETED,
                                  file_path |-> BackupFileOf(DbNameOf(s1)),
                                  file_size_bytes |-> 1, error_message |-> Null,
                                  error_length |-> 0]
                     [] b = 2 -> [exists |-> TRUE, tenant_id |-> 1, status |-> FAILED,
                                  file_path |-> NoPath, file_size_bytes |-> 0,
                                  error_message |-> ExcText,
                                  error_length |-> Truncate(30)]
                     [] OTHER -> NoBackup]
    /\ audit = << AuditLog("user", "create", 1, Null, Null, NoId),
                  AuditLog("system", "create", 1, Null, ACTIVE, NoId),
                  AuditLog("user", "create", 2, Null, Null, NoId),
                  AuditLog("system", "create", 2, Null, ACTIVE, NoId),
                  AuditLog("system", "backup", 1, Null, Null, NoId) >>
    /\ databases = {DbNameOf(s1), DbNameOf(s2)}
    /\ sessions = {}
    /\ files \in {{BackupFileOf(DbNameOf(s1))}, {}}
    /\ queue = {}
    /\ worker = [w \in Workers |-> IdleWorker]
    /\ manager = [w \in Workers |-> WorkingManager]
    /\ req = NoReq
    /\ ops = 0

RestoreNext ==
    \/ \E t \in RestoreTenantIds, b \in RestoreBackupIds : enqueue_job(RESTORE, t, b)
    \/ \E w \in Workers, job \in queue : dequeue_job(w, job)
    \/ \E w \in Workers : restore_read(w)
    \/ \E w \in Workers : restore_drop(w)
    \/ \E w \in Workers : restore_create(w)
    \/ \E w \in Workers : restore_pg_restore(w)
    \/ \E w \in Workers : restore_mark(w)

RestoreSpec == RestoreInit /\ [][RestoreNext]_vars

\* --------------------------------------- backend calls on a populated cluster
\* The jobs that call the provisioning backend, on a platform that runs one
\* provisioned tenant (1, with a COMPLETED backup) and holds one tenant just
\* created (2, CREATING).  The database of tenant 2 is absent, or is there
\* already (left by an earlier delivery of its PROVISION job whose writes
\* raised); other clients hold connections to every database, or to none.
BackendTenantIds == {1, 2}
BackendBackupIds == {1}

BackendInit ==
    LET s1 == <<"a", "c", "m", "e">>
        s2 == <<"a", "-", "c", "o">> IN
    /\ tenant = [t \in BackendTenantIds |->
                   IF t = 1 THEN ProvisionedTenant(s1, TRUE)
                            ELSE [ProvisionedTenant(s2, FALSE) EXCEPT !.state = CREATING]]
    /\ backup = [b \in BackendBackupIds |->
                   [exists |-> TRUE, tenant_id |-> 1, status |-> COMPLETED,
                    file_path |-> BackupFileOf(DbNameOf(s1)),
                    file_size_bytes |-> 1, error_message |-> Null,
                    error_length |-> 0]]
    /\ audit = << AuditLog("user", "create", 1, Null, Null, NoId),
                  AuditLog("system", "create", 1, Null, ACTIVE, NoId),
                  AuditLog("system", "backup", 1, Null, Null, NoId),
                  AuditLog("user", "create", 2, Null, Null, NoId) >>
    /\ databases \in {{DbNameOf(s1)}, {DbNameOf(s1), DbNameOf(s2)}}
    /\ sessions \in {{}, databases}
    /\ files = {BackupFileOf(DbNameOf(s1))}
    /\ queue = {}
    /\ worker = [w \in Workers |-> IdleWorker]
    /\ manager = [w \in Workers |-> WorkingManager]
    /\ req = NoReq
    /\ ops = 0

BackendNext ==
    \/ \E t \in BackendTenantIds : enqueue_job(PROVISION, t, NoId)
    \/ \E t \in BackendTenantIds : enqueue_job(DELETE, t, NoId)
    \/ \E t \in BackendTenantIds, b \in BackendBackupIds : enqueue_job(RESTORE, t, b)
    \/ \E w \in Workers, job \in queue : dequeue_job(w, job)
    \/ \E w \in Workers : provision_read(w)
    \/ \E w \in Workers : provision_create(w)
    \/ \E w \in Workers : provision_mark_error(w)
    \/ \E w \in Workers : provision_mark_active(w)
    \/ \E w \in Workers : provision_except(w)
    \/ \E w \in Workers : delete_read(w)
    \/ \E w \in Workers : delete_drop(w)
    \/ \E w \in Workers : delete_mark(w)
    \/ \E w \in Workers : restore_read(w)
    \/ \E w \in Workers : restore_drop(w)
    \/ \E w \in Workers : restore_create(w)
    \/ \E w \in Workers : restore_pg_restore(w)
    \/ \E w \in Workers : restore_mark(w)

BackendSpec == BackendInit /\ [][BackendNext]_vars

\* ------------------------------------------- a second tenant next to a first
\* The requests of the API and the jobs they enqueue, on a tenants table that
\* holds one provisioned tenant (slug a-co) and has room for a second one.
CreateTenantIds == {1, 2}

CreateInit ==
    LET s1 == <<"a", "-", "c", "o">> IN
    /\ tenant = [t \in CreateTenantIds |->
                   IF t = 1 THEN ProvisionedTenant(s1, FALSE) ELSE NoTenant]
    /\ backup = [b \in BackupIds |-> NoBackup]
    /\ audit = << AuditLog("user", "create", 1, Null, Null, NoId),
                  AuditLog("system", "create", 1, Null, ACTIVE, NoId)
                    @@ ("db_name" :> DbNameOf(s1)) >>
    /\ databases = {DbNameOf(s1)}
    /\ sessions = {}
    /\ files = {}
    /\ queue = {}
    /\ worker = [w \in Workers |-> IdleWorker]
    /\ manager = [w \in Workers |-> WorkingManager]
    /\ req = NoReq
    /\ ops = 0

CreateNext ==
    \/ \E slug \in SlugInputs : api_create_tenant(slug)
    \/ \E t \in CreateTenantIds : api_update_tenant(t)
    \/ \E t \in CreateTenantIds : api_delete_tenant(t)
    \/ \E t \in CreateTenantIds : api_suspend_tenant(t)
    \/ \E t \in CreateTenantIds : api_resume_tenant(t)
    \/ \E t \in CreateTenantIds : api_create_backup(t)
    \/ api_commit
    \/ api_rollback
    \/ \E w \in Workers, job \in queue : dequeue_job(w, job)
    \/ \E w \in Workers : provision_read(w)
    \/ \E w \in Workers : provision_create(w)
    \/ \E w \in Workers : provision_mark_error(w)
    \/ \E w \in Workers : provision_mark_active(w)
    \/ \E w \in Workers : provision_except(w)
    \/ \E w \in Workers : delete_read(w)
    \/ \E w \in Workers : delete_drop(w)
    \/ \E w \in Workers : delete_mark(w)
    \/ \E w \in Workers : backup_read(w)
    \/ \E w \in Workers : backup_dump(w)
    \/ \E w \in Workers : backup_record(w)
    \/ \E w \in Workers : backup_except(w)

CreateSpec == CreateInit /\ [][CreateNext]_vars

\* ------------------------------------------------- worker processes shutting down
\* Worker processes that start while jobs wait in the queue, and the SIGTERM
\* or SIGINT they may receive at any moment from setup_signal_handlers() on.
\* The stores are those of a platform with one provisioned tenant (1) and one
\* tenant just created (2).
ShutdownInit ==
    LET s1 == <<"a", "c", "m", "e">>
        s2 == <<"a", "-", "c", "o">> IN
    /\ tenant = [t \in BackendTenantIds |->
                   IF t = 1 THEN ProvisionedTenant(s1, FALSE)
                            ELSE [ProvisionedTenant(s2, FALSE) EXCEPT !.state = CREATING]]
    /\ backup = [b \in BackendBackupIds |-> NoBackup]
    /\ audit = << AuditLog("user", "create", 1, Null, Null, NoId),
                  AuditLog("system", "create", 1, Null, ACTIVE, NoId),
                  AuditLog("user", "create", 2, Null, Null, NoId) >>
    /\ databases = {DbNameOf(s1)}
    /\ sessions = {}
    /\ files = {}
    /\ queue = {Job(PROVISION, 2, NoId), Job(DELETE, 1, NoId), Job(DELETE, 2, NoId)}
    /\ worker = [w \in Workers |-> IdleWorker]
    /\ manager = [w \in Workers |-> StartingManager]
    /\ req = NoReq
    /\ ops = 0

ShutdownNext ==
    \/ \E w \in Workers : start_work(w)
    \/ \E w \in Workers : shutdown_handler(w)
    \/ \E w \in Workers : worker_exit(w)
    \/ \E w \in Workers, job \in queue : dequeue_job(w, job)
    \/ \E w \in Workers : provision_read(w)
    \/ \E w \in Workers : provision_create(w)
    \/ \E w \in Workers : provision_mark_error(w)
    \/ \E w \in Workers : provision_mark_active(w)
    \/ \E w \in Workers : provision_except(w)
    \/ \E w \in Workers : delete_read(w)
    \/ \E w \in Workers : delete_drop(w)
    \/ \E w \in Workers : delete_mark(w)

ShutdownSpec == ShutdownInit /\ [][ShutdownNext]_vars

\* ------------------------------------------------------------------ claims
\* The lifecycle graph of the specification.
LegalEdges ==
    { <<CREATING, ACTIVE>>, <<CREATING, ERROR>>,
      <<ACTIVE, SUSPENDED>>, <<ACTIVE, DELETING>>,
      <<SUSPENDED, ACTIVE>>, <<SUSPENDED, DELETING>>,
      <<DELETING, DELETED>>, <<DELETING, ERROR>> }

\* Worker w takes a step of its handler in this transition.
Steps(w) == Busy(w) /\ worker'[w].pc # worker[w].pc

\* Worker w's handler returns in this transition.
Returns(w) == Busy(w) /\ worker'[w].pc = "idle"

\* C1: every change of a tenant's state, by any request or job, is an edge of
\* the lifecycle graph.
C1_EveryChangeIsLegalEdge ==
    [][\A t \in TenantIds :
         (tenant[t].exists /\ tenant'[t].state # tenant[t].state)
           => <<tenant[t].state, tenant'[t].state>> \in LegalEdges]_vars

\* The record agrees with the cluster: not ACTIVE without its database, not
\* DELETED with it.
Consistent(t) ==
    /\ ~(tenant[t].state = ACTIVE /\ tenant[t].db_name \notin databases)
    /\ ~(tenant[t].state = DELETED /\ tenant[t].db_name \in databases)

\* The handler returned without the record store having failed it and
\* having found its tenant: a success or a failure the handler decided.
Answered(w) ==
    /\ ~Busy(w)
    /\ worker[w].result.returned
    /\ worker[w].result.error \notin {ExcText, "Tenant not found"}

\* C2: when a PROVISION job and a DELETE job of one tenant ran at the same
\* time on two workers and both have returned (the record store having
\* answered both), exactly one of them reports success and the tenant record
\* is consistent.
C2_RaceOneWinner ==
    \A w1, w2 \in Workers :
       ( /\ w1 # w2
         /\ Answered(w1) /\ Answered(w2)
         /\ worker[w1].kind = PROVISION /\ worker[w2].kind = DELETE
         /\ worker[w1].tenant_id = worker[w2].tenant_id
         /\ w2 \in worker[w1].conc /\ w1 \in worker[w2].conc )
       => /\ worker[w1].result.success # worker[w2].result.success
          /\ Consistent(worker[w1].tenant_id)

\* The positions at which a handler writes the tenant's state.
WritePcs == {"prov_mark_error", "prov_mark_active", "prov_except", "del_mark", "res_mark"}

\* The precondition a handler checked on the state it read.
Precondition(kind, state) ==
    CASE kind = PROVISION -> ProvisionAccepts(state)
      [] kind = DELETE -> ~DeleteSkips(state)
      [] OTHER -> TRUE

\* C3: a handler that checked the tenant's state changes it only if the
\* persisted state at the write still satisfies the precondition it checked
\* (for provision_tenant: is still the CREATING it read).
C3_WriteOnlyOnCheckedState ==
    [][\A w \in Workers :
         ( /\ Steps(w)
           /\ worker[w].pc \in WritePcs
           /\ worker[w].seen # Null
           /\ tenant'[worker[w].tenant_id].state # tenant[worker[w].tenant_id].state )
         => Precondition(worker[w].kind, tenant[worker[w].tenant_id].state)]_vars

\* C4: a tenant becomes DELETED only from DELETING.
C4_DeletedOnlyFromDeleting ==
    [][\A t \in TenantIds :
         (tenant[t].exists /\ tenant[t].state # DELETED /\ tenant'[t].state = DELETED)
           => tenant[t].state = DELETING]_vars

\* C5: once a tenant is DELETED, its state and db_name never change and its
\* database is not created again.
C5_DeletedIsTerminal ==
    [][\A t \in TenantIds :
         (tenant[t].exists /\ tenant[t].state = DELETED)
           => /\ tenant'[t].state = DELETED
              /\ tenant'[t].db_name = tenant[t].db_name
              /\ (tenant[t].db_name \notin databases
                    => tenant[t].db_name \notin databases')]_vars

\* C6: a tenant becomes ERROR only from CREATING or DELETING.
C6_ErrorOnlyFromCreatingOrDeleting ==
    [][\A t \in TenantIds :
         (tenant[t].exists /\ tenant[t].state # ERROR /\ tenant'[t].state = ERROR)
           => tenant[t].state \in {CREATING, DELETING}]_vars

\* C7: a PROVISION job whose tenant is not CREATING when the handler has not
\* yet passed its state check changes neither the tenant row, nor the
\* databases, nor the audit trail, never reaches the database creation, and
\* returns a failed result.
C7_ProvisionRejectedWithoutEffects ==
    [][\A w \in Workers :
         ( /\ Steps(w)
           /\ worker[w].kind = PROVISION
           /\ worker[w].seen = Null
           /\ tenant[worker[w].tenant_id].exists
           /\ tenant[worker[w].tenant_id].state # CREATING )
         => /\ tenant' = tenant
            /\ databases' = databases
            /\ audit' = audit
            /\ worker'[w].pc # "prov_create"
            /\ (Returns(w) => ~worker'[w].result.success)]_vars

\* A RESTORE job dropped the database and a later step failed: the
\* re-creation failed, pg_restore exited non-zero, or pg_restore timed out
\* (the handler returns from the pg_restore call).
RestorePartialFailure(w) ==
    /\ worker[w].kind = RESTORE
    /\ worker[w].dropped = "ok"
    /\ \/ worker[w].created = "failed"
       \/ worker[w].restored = "nonzero"
       \/ worker[w].pc = "res_pg_restore"

\* C8: a RESTORE job that returns after a partial failure leaves the tenant
\* in ERROR and does not report success.
C8_RestorePartialFailureIsError ==
    [][\A w \in Workers :
         (Returns(w) /\ RestorePartialFailure(w))
           => /\ tenant'[worker[w].tenant_id].state = ERROR
              /\ ~worker'[w].result.success]_vars

\* C9: a DELETE job whose drop failed writes ERROR and returns a failed
\* result, and a DELETED tenant never has its database in the cluster.
C9_DropFailureIsError ==
    [][/\ \A w \in Workers :
            (Returns(w) /\ worker[w].kind = DELETE /\ worker[w].dropped = "failed")
              => /\ tenant'[worker[w].tenant_id].state = ERROR
                 /\ ~worker'[w].result.success
       /\ \A t \in TenantIds :
            (tenant'[t].exists /\ tenant'[t].state = DELETED)
              => tenant'[t].db_name \notin databases']_vars

\* A PROVISION job whose database creation failed.
ProvisionCreateFailed(w) ==
    worker[w].kind = PROVISION /\ worker[w].created = "failed"

\* C10 as stated: when such a job returns, the tenant is ERROR with a
\* state_message, the result is a failure and no audit entry was written.
C10_CreateFailureAlwaysError ==
    [][\A w \in Workers :
         (Returns(w) /\ ProvisionCreateFailed(w))
           => /\ tenant'[worker[w].tenant_id].state = ERROR
              /\ tenant'[worker[w].tenant_id].state_message # Null
              /\ ~worker'[w].result.success
              /\ audit' = audit]_vars

\* C10 amended: every step of a PROVISION job after its database creation
\* failed appends no audit entry and either writes ERROR with a
\* state_message or leaves the tenant row as it was (the record store
\* refused the write); the job returns a failed result; a tenant that left
\* CREATING never returns to it, and a PROVISION job that reads a state other
\* than CREATING never reaches the database creation.
C10_CreateFailureErrorWhenStoreCommits ==
    [][/\ \A w \in Workers :
            (Steps(w) /\ ProvisionCreateFailed(w))
              => /\ audit' = audit
                 /\ databases' = databases
                 /\ \/ tenant' = tenant
                    \/ /\ tenant'[worker[w].tenant_id].state = ERROR
                       /\ tenant'[worker[w].tenant_id].state_message
                            \in {MsgCreateFailed, ExcText}
                 /\ (Returns(w) => /\ worker'[w].result.returned
                                   /\ ~worker'[w].result.success)
       /\ \A t \in TenantIds :
            (tenant[t].exists /\ tenant[t].state # CREATING)
              => tenant'[t].state # CREATING
       /\ \A w \in Workers :
            ( /\ Steps(w)
              /\ worker[w].pc = "prov_read"
              /\ tenant[worker[w].tenant_id].exists
              /\ tenant[worker[w].tenant_id].state # CREATING )
            => /\ worker'[w].pc # "prov_create"
               /\ (Returns(w) => ~worker'[w].result.success)]_vars

\* C10 witness: one PROVISION job failed on the database creation and wrote
\* ERROR, and a later PROVISION delivery for the tenant was rejected.
C10_Witness ==
    \E w1, w2 \in Workers :
       /\ w1 # w2
       /\ ~Busy(w1) /\ ~Busy(w2)
       /\ worker[w1].kind = PROVISION /\ worker[w2].kind = PROVISION
       /\ worker[w1].tenant_id = worker[w2].tenant_id
       /\ worker[w1].result.error = "Database creation failed"
       /\ worker[w2].result.error = "Invalid state"
       /\ w1 \notin worker[w2].conc
       /\ tenant[worker[w1].tenant_id].state = ERROR
       /\ tenant[worker[w1].tenant_id].state_message = MsgCreateFailed

\* C11: in every reachable state, a tenant's suspended_at is non-null exactly
\* when its state is SUSPENDED.
C11_SuspendedAtIffSuspended ==
    \A t \in TenantIds :
       tenant[t].exists
         => (tenant[t].suspended_at # Null <=> tenant[t].state = SUSPENDED)

\* The status changes the backup lifecycle allows.
BackupEdges ==
    { <<PENDING, IN_PROGRESS>>, <<IN_PROGRESS, COMPLETED>>, <<IN_PROGRESS, FAILED>> }

\* C12: every change of a Backup record's status is a step along
\* PENDING -> IN_PROGRESS -> {COMPLETED, FAILED}: none goes back, skips
\* IN_PROGRESS or leaves COMPLETED or FAILED.
C12_BackupStatusMonotonic ==
    [][\A b \in BackupIds :
         (backup[b].exists /\ backup'[b].status # backup[b].status)
           => <<backup[b].status, backup'[b].status>> \in BackupEdges]_vars

\* Worker w runs a BACKUP job that found, or is about to find, its tenant in a
\* state other than ACTIVE: it is at the state check with such a tenant, or in
\* the except block without having passed the check.
BackupIneligible(w) ==
    \/ /\ worker[w].pc = "bak_read"
       /\ tenant[worker[w].tenant_id].exists
       /\ tenant[worker[w].tenant_id].state # ACTIVE
    \/ /\ worker[w].pc = "bak_except"
       /\ worker[w].seen = Null
       /\ tenant[worker[w].tenant_id].exists
       /\ tenant[worker[w].tenant_id].state # ACTIVE

\* C13: a BACKUP job that meets a tenant in a state other than ACTIVE never
\* reaches the dump, returns a failure, writes no archive, no audit entry and
\* nothing to the tenant record; a backup request for such a tenant is
\* answered 400, enqueues no job and its commit writes nothing.
C13_OnlyActiveIsBackedUp ==
    [][/\ \A w \in Workers :
            (Steps(w) /\ BackupIneligible(w))
              => /\ worker'[w].pc \in {"idle", "bak_except"}
                 /\ files' = files /\ tenant' = tenant /\ audit' = audit
                 /\ (Returns(w) => /\ worker'[w].result.returned
                                   /\ ~worker'[w].result.success)
       /\ \A t \in TenantIds :
            ( /\ req = NoReq /\ req' # NoReq
              /\ req'.op \in {"backup", "rejected"}
              /\ req'.tenant_id = t
              /\ (req'.op = "rejected" => req'.request = "backup")
              /\ tenant[t].exists /\ tenant[t].state # ACTIVE )
            => /\ req'.op = "rejected" /\ req'.code = 400
               /\ queue' = queue
       /\ (req # NoReq /\ req.op = "rejected" /\ req' = NoReq)
            => /\ tenant' = tenant /\ backup' = backup /\ audit' = audit
               /\ files' = files /\ queue' = queue]_vars

\* C13 witness: a BACKUP job of a SUSPENDED tenant was rejected.
C13_Witness ==
    \E w \in Workers :
       /\ ~Busy(w)
       /\ worker[w].kind = BACKUP
       /\ worker[w].result.error = "Tenant not active"
       /\ tenant[worker[w].tenant_id].state = SUSPENDED
       /\ files = {}

\* Worker w's BACKUP job has failed after starting: it is in the except block.
BackupFailing(w) == worker[w].pc = "bak_except"

\* The job of worker w carries the id of a Backup row that exists.
HasBackupRow(w) ==
    worker[w].backup_id # NoId /\ backup[worker[w].backup_id].exists

\* What a failed BACKUP job leaves alone and returns: the tenant row and the
\* audit trail are untouched, the result is a failure.
BackupFailureFrame(w) ==
    /\ tenant' = tenant /\ audit' = audit /\ files' = files
    /\ worker'[w].result.returned /\ ~worker'[w].result.success

C15_BackupSuccessIsRecorded ==
    [][\A w \in Workers :
         ( /\ Steps(w) /\ Returns(w)
           /\ worker[w].kind = BACKUP
           /\ worker[w].backup_id # NoId
           /\ worker'[w].result.success )
         => LET b == worker[w].backup_id
                t == worker[w].tenant_id IN
              /\ backup[b].exists /\ backup[b].status = IN_PROGRESS
              /\ backup'[b].status = COMPLETED
              /\ backup'[b].file_path # NoPath
              /\ backup'[b].file_size_bytes > 0
              /\ tenant'[t].last_backup_at # Null
              /\ Len(audit') = Len(audit) + 1
              /\ audit'[Len(audit')].action = "backup"
              /\ audit'[Len(audit')].resource_id = t]_vars

\* The validation of worker w's RESTORE job fails: the tenant or the backup
\* is not in the tables, the backup is another tenant's, or its archive path
\* is empty or names no file.
RestoreInvalid(w) ==
    LET t == worker[w].tenant_id
        b == worker[w].backup_id IN
    \/ ~tenant[t].exists
    \/ ~backup[b].exists
    \/ backup[b].tenant_id # t
    \/ backup[b].file_path = NoPath
    \/ backup[b].file_path \notin files

\* C16: a RESTORE job whose validation fails returns a failure from its first
\* step: no database is dropped or created, and the tenant table, the backup
\* table and the audit trail are unchanged.
C16_InvalidRestoreTouchesNothing ==
    [][\A w \in Workers :
         (Steps(w) /\ worker[w].pc = "res_read" /\ RestoreInvalid(w))
           => /\ Returns(w)
              /\ worker'[w].result.returned /\ ~worker'[w].result.success
              /\ databases' = databases /\ tenant' = tenant
              /\ backup' = backup /\ audit' = audit /\ files' = files]_vars

\* C16 witness: a RESTORE of tenant 2 from tenant 1's backup and a RESTORE from
\* a backup without archive were both refused, and both databases and the
\* audit trail are as they were.
C16_Witness ==
    \E w1, w2 \in Workers :
       /\ ~Busy(w1) /\ ~Busy(w2)
       /\ worker[w1].kind = RESTORE /\ worker[w2].kind = RESTORE
       /\ worker[w1].result.error = "Backup does not belong to this tenant"
       /\ worker[w2].result.error = "Backup file not found"
       /\ \A t \in {1, 2} : tenant[t].state = ACTIVE /\ tenant[t].db_name \in databases
       /\ Len(audit) = 5

\* Worker w's RESTORE job reaches its end with every backend step having
\* succeeded: the drop, the creation and pg_restore.
RestoreStepsSucceeded(w) ==
    /\ worker[w].kind = RESTORE
    /\ worker[w].dropped = "ok"
    /\ worker[w].created = "ok"
    /\ worker[w].restored = "ok"

\* C17: when a RESTORE job of tenant T from a COMPLETED backup B returns
\* success with all its backend steps having succeeded, T is ACTIVE, T's
\* database exists and the audit trail holds a RESTORE entry of T that
\* references B.
C17_BackupRestoreRoundTrip ==
    [][\A w \in Workers :
         ( /\ Steps(w) /\ Returns(w)
           /\ RestoreStepsSucceeded(w)
           /\ worker'[w].result.success
           /\ backup[worker[w].backup_id].exists
           /\ backup[worker[w].backup_id].status = COMPLETED )
         => LET t == worker[w].tenant_id
                b == worker[w].backup_id IN
              /\ tenant'[t].state = ACTIVE
              /\ tenant'[t].db_name \in databases'
              /\ \E i \in 1..Len(audit') :
                   /\ audit'[i].action = "restore"
                   /\ audit'[i].resource_id = t
                   /\ audit'[i].backup_id = b]_vars

\* db is 'odoo_' followed by slug with every '-' replaced by '_'.
IsDbNameFor(db, slug) ==
    /\ Len(db) = Len(slug) + 5
    /\ SubSeq(db, 1, 5) = <<"o", "d", "o", "o", "_">>
    /\ \A i \in 1..Len(slug) :
         db[5 + i] = (IF slug[i] = "-" THEN "_" ELSE slug[i])

\* The commit of a create request inserts the tenant CREATING with the
\* db_name derived from its slug.
CreatedAsSpecified ==
    (req # NoReq /\ req.op = "create" /\ req' = NoReq /\ tenant' # tenant)
      => /\ ~tenant[req.tenant_id].exists
         /\ tenant'[req.tenant_id].exists
         /\ tenant'[req.tenant_id].slug = req.slug
         /\ tenant'[req.tenant_id].state = CREATING
         /\ IsDbNameFor(tenant'[req.tenant_id].db_name, req.slug)

\* Worker w's step leaves its tenant provisioned: ACTIVE, no state_message,
\* success returned, one audit entry by 'system' with the state and db_name.
ProvisionedBy(w) ==
    LET t == worker[w].tenant_id IN
    /\ tenant'[t].state = ACTIVE
    /\ tenant'[t].state_message = Null
    /\ worker'[w].result.returned /\ worker'[w].result.success
    /\ Len(audit') = Len(audit) + 1
    /\ SubSeq(audit', 1, Len(audit)) = audit
    /\ audit'[Len(audit')].actor_email = "system"
    /\ audit'[Len(audit')].resource_id = t
    /\ audit'[Len(audit')].new_state = ACTIVE
    /\ audit'[Len(audit')].db_name = tenant'[t].db_name

Commits(op) ==
    /\ req # NoReq /\ req.op = op /\ req' = NoReq
    /\ (tenant' # tenant \/ audit' # audit)

\* The commit of an accepted `op` request finds its tenant in state `from`,
\* leaves it in state `to`, and appends one audit entry with both states.
CommitMoves(op, from, to) ==
    Commits(op)
      => /\ tenant[req.tenant_id].state = from
         /\ tenant'[req.tenant_id].state = to
         /\ Len(audit') = Len(audit) + 1
         /\ SubSeq(audit', 1, Len(audit)) = audit
         /\ audit'[Len(audit')].action = op
         /\ audit'[Len(audit')].old_state = from
         /\ audit'[Len(audit')].new_state = to

\* A request `op` that arrives while its tenant is in a state other than
\* `from` is rejected.
RejectedUnless(op, from) ==
    \A t \in TenantIds :
       ( /\ req = NoReq /\ req' # NoReq
         /\ req'.tenant_id = t
         /\ \/ req'.op = op
            \/ req'.op = "rejected" /\ req'.request = op
         /\ tenant[t].exists /\ tenant[t].state # from )
       => req'.op = "rejected"

\* C19: a suspend takes effect only on an ACTIVE tenant and leaves it
\* SUSPENDED with suspended_at set; a resume takes effect only on a SUSPENDED
\* tenant and leaves it ACTIVE with suspended_at null; each appends one audit
\* entry with the old and the new state; in any other state the request is
\* rejected and changes neither the tenant record nor the audit trail.
C19_SuspendResumeOnlyFromTheirState ==
    [][/\ CommitMoves("suspend", ACTIVE, SUSPENDED)
       /\ (Commits("suspend") => tenant'[req.tenant_id].suspended_at # Null)
       /\ CommitMoves("resume", SUSPENDED, ACTIVE)
       /\ (Commits("resume") => tenant'[req.tenant_id].suspended_at = Null)
       /\ RejectedUnless("suspend", ACTIVE)
       /\ RejectedUnless("resume", SUSPENDED)
       /\ (req # NoReq /\ req.op = "rejected" /\ req' = NoReq)
            => (tenant' = tenant /\ audit' = audit)]_vars

\* The audit entries the DELETE job wrote for tenant t.
DeleteJobEntries(t) ==
    {i \in 1..Len(audit) : /\ audit[i].actor_email = "system"
                           /\ audit[i].action = "delete"
                           /\ audit[i].resource_id = t}

\* Two deliveries of the DELETE job of one tenant have both returned success
\* and left the audit trail a single delivery leaves: one entry of the job.
DeliveredTwiceAsOnce ==
    \A w1, w2 \in Workers :
       ( /\ w1 # w2
         /\ ~Busy(w1) /\ ~Busy(w2)
         /\ worker[w1].kind = DELETE /\ worker[w2].kind = DELETE
         /\ worker[w1].tenant_id = worker[w2].tenant_id
         /\ worker[w1].result.success /\ worker[w2].result.success )
       => Cardinality(DeleteJobEntries(worker[w1].tenant_id)) = 1

\* C20: a DELETE job that finds its tenant DELETED returns success, drops no
\* database, changes neither the tenant record nor the audit trail; and two
\* deliveries of the same DELETE job leave the record and the audit trail
\* that one delivery leaves.
C20_DeleteIsIdempotent ==
    [][/\ \A w \in Workers :
            ( /\ Steps(w) /\ worker[w].pc = "del_read"
              /\ tenant[worker[w].tenant_id].exists
              /\ tenant[worker[w].tenant_id].state = DELETED )
            => /\ Returns(w)
               /\ worker'[w].result.returned /\ worker'[w].result.success
               /\ databases' = databases /\ tenant' = tenant /\ audit' = audit
       /\ DeliveredTwiceAsOnce']_vars

\* The first session block of worker w's handler reads its tenant DELETED and
\* the record store does not fail the block.
ReadsDeleted(w) ==
    /\ worker[w].pc \in {"prov_read", "del_read", "bak_read", "res_read"}
    /\ tenant[worker[w].tenant_id].exists
    /\ tenant[worker[w].tenant_id].state = DELETED
    /\ worker'[w].pc # worker[w].pc
    /\ worker'[w].pc \notin {"prov_except", "bak_except"}
    /\ worker'[w].result.error # ExcText

\* C21: a PROVISION, BACKUP, RESTORE or DELETE job that finds its tenant
\* DELETED returns a success result at once and changes nothing.
C21_JobsOnDeletedAreSuccessfulNoOps ==
    [][\A w \in Workers :
         ReadsDeleted(w)
           => /\ worker'[w].pc = "idle"
              /\ worker'[w].result = Success
              /\ UNCHANGED <<tenant, backup, audit, databases, files>>]_vars

\* The transition appends an audit entry for tenant t and keeps the others.
AuditAppendedFor(t) ==
    /\ Len(audit') = Len(audit) + 1
    /\ SubSeq(audit', 1, Len(audit)) = audit
    /\ audit'[Len(audit')].resource_id = t

\* C22: every committed change of a tenant's state, the changes to ERROR of a
\* failed provisioning included, comes with an audit entry for that tenant in
\* the same transaction.
C22_EveryStateChangeIsAudited ==
    [][\A t \in TenantIds :
         (tenant[t].exists /\ tenant'[t].state # tenant[t].state)
           => AuditAppendedFor(t)]_vars

\* The state the block at position pc of a handler writes on its tenant.
StateWrittenAt(pc) ==
    CASE pc = "prov_mark_active" -> ACTIVE
      [] pc = "del_mark" -> DELETED
      [] pc = "res_mark" -> ACTIVE
      [] OTHER -> Null

\* The insert of the audit entry fails in the block worker w runs now, a
\* block that writes a tenant state.
AuditInsertFails(w) ==
    /\ StateWrittenAt(worker[w].pc) # Null
    /\ worker'[w].pc # worker[w].pc
    /\ worker'[w].fault = "audit"

\* C23: when the insert of the audit entry fails in the block in which a job
\* persists a new tenant state, the state is persisted all the same and the
\* job reports success.
C23_AuditFailureDoesNotBlockStateChange ==
    [][\A w \in Workers :
         AuditInsertFails(w)
           => /\ tenant'[worker[w].tenant_id].state = StateWrittenAt(worker[w].pc)
              /\ worker'[w].pc = "idle"
              /\ worker'[w].result = Success]_vars

\* C24: the audit trail is append-only: a transition leaves every entry that
\* was committed in its place with all its fields, and at most adds entries
\* after them.
C24_AuditTrailIsAppendOnly ==
    [][/\ Len(audit') >= Len(audit)
       /\ SubSeq(audit', 1, Len(audit)) = audit]_vars

\* A trail of a request's entry and two later ones, the last written by a job
\* that deleted the tenant.
C24_Witness ==
    /\ Len(audit) >= 3
    /\ audit[1].actor_email = "user"
    /\ audit[1].action = "create"
    /\ audit[Len(audit)].actor_email = "system"
    /\ audit[Len(audit)].new_state = DELETED

\* The number of steps a handler at position pc can still take, at most.
StepsLeft(pc) ==
    CASE pc = "idle" -> 0
      [] pc \in {"prov_except", "bak_except", "del_mark", "res_mark"} -> 1
      [] pc \in {"prov_mark_active", "prov_mark_error", "del_drop",
                 "bak_record", "res_pg_restore"} -> 2
      [] pc \in {"prov_create", "del_read", "bak_dump", "res_create"} -> 3
      [] pc \in {"prov_read", "bak_read", "res_drop"} -> 4
      [] pc = "res_read" -> 5

\* A result as the handlers document it: a success flag, and an error text
\* exactly when the flag is false.
WellFormedResult(r) ==
    /\ r.returned
    /\ r.success \in BOOLEAN
    /\ r.success <=> (r.error = Null)

\* C25: no exception escapes a job handler.  Whatever fails (the record
\* store, the provisioning backend, pg_dump or pg_restore), every step of a
\* handler brings it nearer to its return, and it ends by returning a result
\* with a success flag and, when the flag is false, an error text.
C25_HandlersAlwaysReturnAResult ==
    [][\A w \in Workers :
         Busy(w)
           => /\ worker'[w].pc # worker[w].pc
                   => StepsLeft(worker'[w].pc) < StepsLeft(worker[w].pc)
              /\ worker'[w].pc = "idle" => WellFormedResult(worker'[w].result)]_vars

\* A PROVISION job has returned a failure after its database was created, the
\* write of ACTIVE raised and the write of ERROR in the except block raised too.
C25_Witness ==
    \E w \in Workers :
      /\ worker[w].kind = PROVISION
      /\ ~Busy(w)
      /\ worker[w].fault # Null
      /\ worker[w].result = Failure(ExcText)
      /\ tenant[worker[w].tenant_id].state = CREATING
      /\ tenant[worker[w].tenant_id].db_name \in databases

\* Worker w calls create_tenant_database in this transition and the database
\* is there already.
CreatesExisting(w) ==
    /\ worker[w].pc \in {"prov_create", "res_create"}
    /\ worker'[w].pc # worker[w].pc
    /\ worker[w].db_name \in databases

\* The database names of the slugs of the model.
DbNames == {DbNameOf(slug) : slug \in SlugInputs}

\* C26 as stated: create_tenant_database on a database that exists returns
\* success and changes nothing.
C26_CreateExistingAlwaysSucceeds ==
    [][\A w \in Workers :
         CreatesExisting(w)
           => /\ worker'[w].created = "ok"
              /\ UNCHANGED <<databases, sessions>>]_vars

\* C26, amended: create_tenant_database on a database that exists changes
\* nothing in the cluster; it returns success whenever its connection to the
\* cluster works (and False when it does not), and on a working connection
\* a second call leaves what the first call left.
C26_CreateExistingSucceedsWhenConnected ==
    [][/\ \A w \in Workers :
            CreatesExisting(w) => UNCHANGED <<databases, sessions>>
       /\ \A n \in databases :
            create_tenant_database(databases, sessions, n, FALSE)
              = Cluster(databases, sessions, TRUE)
       /\ \A n \in DbNames :
            LET once == create_tenant_database(databases, sessions, n, FALSE) IN
              /\ once.ret
              /\ create_tenant_database(once.databases, once.sessions, n, FALSE) = once]_vars

\* The only job so far is a restore whose drop failed: its call of
\* create_tenant_database met the database and returned True.
C26_Witness ==
    \E w \in Workers :
      /\ ops = 1
      /\ worker[w].pc = "res_pg_restore"
      /\ worker[w].dropped = "failed"
      /\ worker[w].created = "ok"
      /\ worker[w].db_name \in databases

\* Worker w calls drop_tenant_database in this transition.
Drops(w) ==
    /\ \/ worker[w].pc = "del_drop" /\ worker[w].db_name # NoDb
       \/ worker[w].pc = "res_drop"
    /\ worker'[w].pc # worker[w].pc

TenantRows == {t \in DOMAIN tenant : tenant[t].exists}

\* C28: db_name is unique among the tenant records, and from the creation of
\* a tenant on no request (update, suspend, resume, delete) and no job
\* changes its db_name.
C28_DbNameUniqueAndImmutable ==
    [][/\ \A t1, t2 \in TenantRows :
            tenant[t1].db_name = tenant[t2].db_name => t1 = t2
       /\ \A t \in TenantRows :
            /\ tenant'[t].exists
            /\ tenant'[t].db_name = tenant[t].db_name
       /\ \A t1, t2 \in {t \in DOMAIN tenant : tenant'[t].exists} :
            tenant'[t1].db_name = tenant'[t2].db_name => t1 = t2]_vars

\* Two tenants with their own db_names, the second created after the first
\* and set up by its PROVISION job, the first deleted since by a job.
C28_Witness ==
    /\ tenant[1].exists /\ tenant[2].exists
    /\ tenant[1].db_name = DbNameOf(tenant[1].slug)
    /\ tenant[2].db_name = DbNameOf(tenant[2].slug)
    /\ tenant[2].state = ACTIVE
    /\ tenant[1].state = DELETED

\* C29: when the PROVISION job of a CREATING tenant comes to create the
\* database and a database of that name exists already, the job takes the
\* failure path that sets the tenant to ERROR with a message, and not the
\* path that sets it ACTIVE.
C29_ExistingDatabaseIsAConflict ==
    [][\A w \in Workers :
         (/\ worker[w].pc = "prov_create"
          /\ worker[w].seen = CREATING
          /\ worker[w].db_name \in databases
          /\ worker'[w].pc # worker[w].pc)
           => /\ worker'[w].pc = "prov_mark_error"
              /\ worker'[w].created = "failed"]_vars

\* The process of worker w has received SIGTERM or SIGINT.
Signalled(w) == ~manager[w].running

\* C30: graceful shutdown.  A worker that has received SIGTERM or SIGINT
\* dequeues no further job; it exits only when the job it was running has
\* returned; and its exit leaves the queued jobs where they are.
C30_GracefulShutdown ==
    [][\A w \in Workers :
         /\ Signalled(w) => ~(~Busy(w) /\ Busy(w)')
         /\ (manager[w].phase # "exited" /\ manager'[w].phase = "exited")
              => /\ Signalled(w)
                 /\ ~Busy(w)
                 /\ queue' = queue]_vars

\* The job steps that are one session_scope block whose exception leaves the
\* handler's try (the except blocks of the handlers swallow theirs).
SessionPcs ==
    {"prov_mark_error", "prov_mark_active", "del_mark", "bak_read",
     "bak_record", "res_mark"}

\* The block worker w was in has raised: the handler continues in its except
\* block or returns the exception's text.
Raises(w) ==
    \/ worker'[w].pc \in {"prov_except", "bak_except"}
    \/ Returns(w) /\ worker'[w].result.error = ExcText

\* What the block worker w was in has written is in the tables.
Persisted(w) ==
    LET t == worker[w].tenant_id
        b == worker[w].backup_id
        Audited == Len(audit') = Len(audit) + 1 IN
    /\ worker[w].pc = "prov_mark_error" /\ tenant[t].exists
         => tenant'[t].state = ERROR
    /\ worker[w].pc = "prov_mark_active" /\ tenant[t].exists
         => tenant'[t].state = ACTIVE /\ Audited
    /\ worker[w].pc = "del_mark" /\ tenant[t].exists
         => tenant'[t].state = DELETED /\ Audited
    /\ worker[w].pc = "bak_read" /\ worker'[w].pc = "bak_dump" /\ HasBackupRow(w)
         => backup'[b].status = IN_PROGRESS
    /\ worker[w].pc = "bak_record"
         => /\ Audited
            /\ HasBackupRow(w) => backup'[b].status = COMPLETED
            /\ tenant[t].exists => tenant'[t].last_backup_at = "set"
    /\ worker[w].pc = "res_mark"
         => /\ Audited
            /\ tenant[t].exists => tenant'[t].state = ACTIVE

\* C31: session_scope is a unit of work.  A block that raises (itself or its
\* commit) leaves the three tables as they were and the exception reaches
\* the handler; a block that does not raise has all its writes in the
\* tables; and when a request's session ends, the request's writes are all
\* in the tables or none is, and the session is gone.
C31_SessionScopeIsAUnitOfWork ==
    [][/\ \A w \in Workers :
            worker[w].pc \in SessionPcs /\ Steps(w)
              => IF Raises(w)
                   THEN UNCHANGED <<tenant, backup, audit>>
                   ELSE Persisted(w)
       /\ req # NoReq /\ req' # req
            => /\ req' = NoReq
               /\ \/ /\ tenant' = CommittedTenant(req)
                     /\ audit' = CommittedAudit(req)
                     /\ backup' = CommittedBackup(req)
                  \/ UNCHANGED <<tenant, backup, audit>>]_vars

\* The block of provision_tenant that writes ACTIVE and the audit entry has
\* raised on the audit entry: the handler is in its except block, the tenant
\* is still CREATING and no audit entry of the job is stored.
C31_Witness ==
    \E w \in Workers :
      /\ worker[w].pc = "prov_except"
      /\ worker[w].fault = "audit"
      /\ tenant[worker[w].tenant_id].exists
      /\ tenant[worker[w].tenant_id].state = CREATING
      /\ \A i \in 1..Len(audit) : audit[i].actor_email # "system"

\* A job of the given kind for tenant t is queued, or a worker is running it.
JobPending(kind, t) ==
    \/ \E job \in queue : job.kind = kind /\ job.tenant_id = t
    \/ \E w \in Workers :
         Busy(w) /\ worker[w].kind = kind /\ worker[w].tenant_id = t

\* C32: every tenant created through the API leaves CREATING.  The part of
\* it that holds in every state: a tenant whose committed state is CREATING
\* has a PROVISION job queued or running, so that a fair worker will bring
\* it to ACTIVE or ERROR.
C32_CreatingHasProvisionJob ==
    \A t \in TenantIds :
      tenant[t].exists /\ tenant[t].state = CREATING
        => JobPending(PROVISION, t)

\* C33: every tenant moved to DELETING by a delete request becomes DELETED.
\* The part of it that holds in every state: a tenant whose committed state
\* is DELETING has a DELETE job queued or running, whatever the order of the
\* request's commit and the job's steps.
C33_DeletingHasDeleteJob ==
    \A t \in TenantIds :
      tenant[t].exists /\ tenant[t].state = DELETING
        => JobPending(DELETE, t)

\* A BACKUP job for Backup record b is queued, or a worker is running it.
BackupJobPending(b) ==
    \/ \E job \in queue : job.kind = BACKUP /\ job.backup_id = b
    \/ \E w \in Workers :
         Busy(w) /\ worker[w].kind = BACKUP /\ worker[w].backup_id = b

\* Worker w has run the BACKUP job of Backup record b to its return.
BackupJobHasRun(w, b) ==
    /\ ~Busy(w)
    /\ worker[w].kind = BACKUP
    /\ worker[w].backup_id = b
    /\ worker[w].result.returned

\* C34: once the BACKUP job of a Backup record has run, the record is
\* COMPLETED or FAILED: no execution of backup_tenant returns and leaves the
\* record PENDING or IN_PROGRESS with no BACKUP job for it queued or running.
C34_BackupReachesAFinalStatus ==
    \A b \in DOMAIN backup : \A w \in Workers :
      backup[b].exists /\ BackupJobHasRun(w, b) /\ ~BackupJobPending(b)
        => backup[b].status \in {COMPLETED, FAILED}

\* Worker w's job writes ACTIVE to its tenant in this step.
WritesActive(w) ==
    /\ worker[w].pc \in {"prov_mark_active", "res_mark"}
    /\ Returns(w) /\ worker'[w].result.success
    /\ tenant[worker[w].tenant_id].exists
    /\ tenant'[worker[w].tenant_id].state = ACTIVE

\* C35: whenever provision_tenant or restore_tenant writes ACTIVE to a
\* tenant, the tenant's database exists at that moment.
C35_ActiveOnlyWithDatabase ==
    [][\A w \in Workers :
         WritesActive(w) => tenant[worker[w].tenant_id].db_name \in databases]_vars

\* The BACKUP job of worker w records COMPLETED for Backup record b in this
\* step.
RecordsCompleted(w, b) ==
    /\ worker[w].kind = BACKUP
    /\ worker[w].pc = "bak_record"
    /\ worker[w].backup_id = b
    /\ Returns(w) /\ worker'[w].result.success
    /\ backup'[b].status = COMPLETED

\* C36: a Backup record's file_path is set only by a BACKUP job that records
\* COMPLETED for it in the same step, and is never cleared; a RESTORE job
\* goes on to the drop, and drops, only for a record whose file_path is set;
\* and a record whose file_path is not set (it has never been COMPLETED) is
\* rejected by restore with the databases left as they are.
C36_RestoreDropsOnlyForCompletedBackups ==
    [][/\ \A b \in DOMAIN backup :
            backup'[b].file_path # backup[b].file_path
              => /\ backup'[b].file_path # NoPath
                 /\ \E w \in Workers : RecordsCompleted(w, b)
       /\ \A w \in Workers :
            LET b == worker[w].backup_id IN
            /\ worker[w].kind = RESTORE /\ worker'[w].pc = "res_drop" /\ Steps(w)
                 => HasBackupRow(w) /\ backup[b].file_path # NoPath
            /\ worker[w].pc = "res_drop" /\ Steps(w)
                 => HasBackupRow(w) /\ backup[b].file_path # NoPath
            /\ (/\ worker[w].pc = "res_read" /\ Steps(w)
                /\ HasBackupRow(w) /\ backup[b].file_path = NoPath)
                 => /\ Returns(w) /\ ~worker'[w].result.success
                    /\ databases' = databases]_vars

\* A RESTORE job has dropped its tenant's database, for a Backup record
\* whose file_path a BACKUP job has set.
C36_Witness ==
    \E w \in Workers :
      /\ worker[w].kind = RESTORE
      /\ worker[w].pc = "res_create"
      /\ worker[w].dropped = "ok"
      /\ worker[w].db_name \notin databases
      /\ HasBackupRow(w)
      /\ backup[worker[w].backup_id].file_path # NoPath

\* Tenant rows a and b differ in last_backup_at at most.
SameButLastBackup(a, b) ==
    [a EXCEPT !.last_backup_at = b.last_backup_at] = b

\* C37: a BACKUP job never changes the tenant's lifecycle.  Every step of
\* backup_tenant leaves each tenant row as it was but for last_backup_at
\* (so state, state_message, db_name and suspended_at are unchanged), and
\* last_backup_at changes only for the job's tenant, in the step in which
\* the job returns success.
C37_BackupLeavesLifecycleUnchanged ==
    [][\A w \in Workers :
         worker[w].kind = BACKUP /\ Steps(w)
           => \A t \in DOMAIN tenant :
                /\ SameButLastBackup(tenant[t], tenant'[t])
                /\ tenant'[t].last_backup_at # tenant[t].last_backup_at
                     => /\ t = worker[w].tenant_id
                        /\ Returns(w) /\ worker'[w].result.success]_vars

\* A BACKUP job has returned success and has written last_backup_at of its
\* tenant, whose state had left ACTIVE while the job ran.
C37_Witness ==
    \E w \in Workers :
      /\ ~Busy(w)
      /\ worker[w].kind = BACKUP
      /\ worker[w].result.success
      /\ tenant[worker[w].tenant_id].exists
      /\ tenant[worker[w].tenant_id].last_backup_at = "set"
      /\ tenant[worker[w].tenant_id].state = DELETING

====
